---- MODULE Spec2Model ----
(***************************************************************************)
(* Voter authentication, lockout throttle, voting-session tokens and vote  *)
(* commitment of the blockchain voting backend (backend/app).              *)
(*                                                                         *)
(* The server runs one or more worker processes against one PostgreSQL     *)
(* database and one ledger node.  Every handler is an `async def` without  *)
(* an await in its body, so inside one process a request runs from start   *)
(* to end without another request of that process in between; requests of  *)
(* different processes interleave at every database statement and ledger   *)
(* call.  used_tokens is a module-level dict, one per process.             *)
(* Time is counted in minutes and kept relative to the present instant:    *)
(* `now` is the origin, a stored timestamp is an offset from it (-5 is five *)
(* minutes ago), and the passing of time moves every stored timestamp into *)
(* the past.  The code only ever compares a timestamp with the clock, so a *)
(* timestamp that lies further back than any such comparison can tell is   *)
(* kept at that distance.                                                  *)
(***************************************************************************)
EXTENDS Integers, Sequences, FiniteSets, Bags, TLC

\* ---------------------------------------------------------------- bounds
TickStep == 5
MaxAuth == 5
MaxCast == 2
MaxSeqAuth == 2
MaxDim == 2
MaxCoord == 1
MaxPlain == 2
MaxQDim == 3
MaxQCoord == 2

\* ------------------------------------------------------ program constants
MAX_AUTH_ATTEMPTS == 3
LOCKOUT_DURATION_MINUTES == 30
VOTING_SESSION_EXPIRE_MINUTES == 5
USED_TOKEN_TTL_MINUTES == 10

\* ------------------------------------------------------ the fixed tables
Workers == {"w1", "w2"}
Voters == {"V1"}
UnknownVoter == "V0"
VoterIds == Voters \cup {UnknownVoter}
NoTime == -1000
now == 0
NoTx == 0
NoSession == 0

constituency_of(v) == "K1"

Candidates ==
  [c1 |-> [election_id |-> "E1", constituency_id |-> "K1", is_active |-> TRUE],
   c2 |-> [election_id |-> "E1", constituency_id |-> "K2", is_active |-> TRUE],
   c3 |-> [election_id |-> "E1", constituency_id |-> "K1", is_active |-> FALSE]]
CandidateIds == DOMAIN Candidates \cup {"cX"}

Samples == {"undecodable", "nomatch", "match"}

\* authenticate_with_fingerprint repeats authenticate_with_face statement for
\* statement on the fingerprint columns; the requests below take the face route
Methods == {"face"}

VARIABLES voters, vote_submissions, auth_attempts, election_status,
          tokens, used_tokens, chain, req, streak, n_auth, n_cast

vars == <<voters, vote_submissions, auth_attempts, election_status,
          tokens, used_tokens, chain, req, streak, n_auth, n_cast>>

\* ------------------------------------------------------------- rows
\* voters.id, the primary key of the row registered under a voter_id
voter_pk_of == [V1 |-> 1, V2 |-> 2]

\* the biometric columns register_voter writes for the voter with primary key pk
Enrolled(pk) ==
  [face_embedding_hash |-> pk, fingerprint_template_hash |-> pk, biometric_salt |-> pk,
   encrypted_face_embedding |-> pk, encrypted_fingerprint_template |-> pk]

\* soft_deleted is no column: it records that delete_voter has logged
\* "voter_soft_deleted" for the row
NewVoter(v) ==
  [id |-> voter_pk_of[v], voter_id |-> v, constituency_id |-> constituency_of(v),
   has_voted |-> FALSE, voted_at |-> NoTime, vote_tx_hash |-> NoTx,
   failed_auth_count |-> 0, locked_out |-> FALSE, lockout_at |-> NoTime,
   soft_deleted |-> FALSE,
   full_name |-> "n0", address |-> "a0", biometric |-> Enrolled(voter_pk_of[v])]

NoVoter ==
  [id |-> 0, voter_id |-> UnknownVoter, constituency_id |-> "K0",
   has_voted |-> FALSE, voted_at |-> NoTime, vote_tx_hash |-> NoTx,
   failed_auth_count |-> 0, locked_out |-> FALSE, lockout_at |-> NoTime,
   soft_deleted |-> FALSE,
   full_name |-> "n0", address |-> "a0", biometric |-> Enrolled(0)]

\* SELECT ... FROM voters WHERE voter_id = :voter_id ; fetchone()
SelectVoter(v) == IF v \in DOMAIN voters THEN voters[v] ELSE NoVoter

\* UPDATE voters SET <fields of upd> WHERE voter_id = :voter_id ; commit
UpdateVoter(v, upd) ==
  IF v \in DOMAIN voters
  THEN [voters EXCEPT ![v] = [f \in DOMAIN @ |-> IF f \in DOMAIN upd THEN upd[f] ELSE @[f]]]
  ELSE voters

\* the row as a handler holds it after fetchone(): no statement after the lockout
\* window test reads a timestamp of the fetched row
Fetched(row) == [row EXCEPT !.lockout_at = NoTime, !.voted_at = NoTime]

\* session_data of get_current_session
NoSessionData ==
  [voter_id |-> UnknownVoter, election_id |-> "E0", constituency_id |-> "K0",
   session_id |-> NoSession]

Idle ==
  [kind |-> "idle", pc |-> "idle", voter_id |-> UnknownVoter, method |-> "none",
   voter |-> NoVoter, session |-> NoSessionData, submitted |-> FALSE, tx_hash |-> NoTx,
   compared |-> FALSE,
   matched |-> FALSE, in_window |-> FALSE, after_max |-> FALSE,
   status |-> 0, detail |-> "none", auth_token |-> NoSession, candidate_id |-> "none",
   sample |-> "none", stored_ok |-> TRUE]

\* the handler has raised or returned: the response is in status/detail
Respond(r, status, detail) == [r EXCEPT !.pc = "done", !.status = status, !.detail = detail]

\* ------------------------------------------------------------- attempt log
\* log_auth_attempt: INSERT INTO auth_attempts ... (SELECT id FROM voters WHERE voter_id = ..)
log_auth_attempt(v, method, outcome, reason, scored) ==
  auth_attempts (+) SetToBag({[voter_ref |-> SelectVoter(v).id, auth_method |-> method,
                               outcome |-> outcome, failure_reason |-> reason,
                               scored |-> scored]})

\* ------------------------------------------------------------- elections
\* SELECT e.id FROM elections e WHERE e.status = 'active' ORDER BY created_at DESC LIMIT 1
ActiveElections == {e \in DOMAIN election_status : election_status[e] = "active"}

\* ------------------------------------------------------------- tokens
\* the two signing keys of the settings (taken to differ)
JWT_SECRET == "JWT_SECRET"
VOTING_SESSION_SECRET == "VOTING_SESSION_SECRET"

\* a claim a payload does not carry: payload.get(name) returning None
None == "None"

\* payload.get(name)
Claim(payload, name) == IF name \in DOMAIN payload THEN payload[name] ELSE None

\* create_voting_session_token: the claims, and `key` the secret it is signed with
create_voting_session_token(v, e, k, sid) ==
  [session_id |-> sid, voter_id |-> v, election_id |-> e, constituency_id |-> k,
   iat |-> now, exp |-> now + VOTING_SESSION_EXPIRE_MINUTES, type |-> "voting_session",
   key |-> VOTING_SESSION_SECRET]

\* uuid.uuid4(): a value no earlier session carries
NewSessionId == Cardinality(tokens) + 1

\* ------------------------------------------------------------- the state after start-up
Init ==
  /\ voters = [v \in Voters |-> NewVoter(v)]
  /\ vote_submissions = {}
  /\ auth_attempts = EmptyBag
  /\ election_status = [E1 |-> "active"]
  /\ tokens = {}
  /\ used_tokens = [w \in Workers |-> {}]
  /\ chain = << >>
  /\ req = [w \in Workers |-> Idle]
  /\ streak = [v \in Voters |-> 0]
  /\ n_auth = 0
  /\ n_cast = 0

\* ------------------------------------------------------------- authenticate
\* lockout window test of authenticate_with_face / authenticate_with_fingerprint
InLockoutWindow(row) ==
  /\ row.lockout_at # NoTime
  /\ now < row.lockout_at + LOCKOUT_DURATION_MINUTES

\* the handler without its has_voted test
AuthAlreadyVotedSkipped(row) == FALSE

\* authenticate_with_*: `if voter.has_voted` on the fetched row
AuthAlreadyVoted(row) == row.has_voted

\* a variant of the lockout branch that restarts the lockout on every attempt
RejectInWindowExtending(v) == UpdateVoter(v, [lockout_at |-> now])

\* the voters table after a request turned down inside the lockout window: the
\* branch logs the attempt and raises, it runs no UPDATE voters
RejectInWindow(v) == voters

\* authenticate_with_*: the voter SELECT and the checks made on the fetched row
\* before the first write (voter missing, already voted, inside the lockout window)
AuthSelect(w, v, m) ==
  /\ req[w].kind = "idle"
  /\ n_auth < MaxAuth
  /\ n_auth' = n_auth + 1
  /\ LET row == SelectVoter(v)
         r0 == [Idle EXCEPT !.kind = "auth", !.voter_id = v, !.method = m,
                            !.voter = Fetched(row),
                            !.in_window = (row.locked_out /\ row.lockout_at # NoTime
                                           /\ now - row.lockout_at < LOCKOUT_DURATION_MINUTES),
                            !.after_max = (v \in DOMAIN streak /\ streak[v] >= MAX_AUTH_ATTEMPTS
                                           /\ ~(row.locked_out /\ ~InLockoutWindow(row)))]
     IN  IF row.id = 0
         THEN /\ auth_attempts' = log_auth_attempt(v, m, "failure", "Voter not found", FALSE)
              /\ req' = [req EXCEPT ![w] = Respond(r0, 404, "Voter not found")]
              /\ voters' = voters
         ELSE IF AuthAlreadyVoted(row)
         THEN /\ auth_attempts' = log_auth_attempt(v, m, "failure", "Already voted", FALSE)
              /\ req' = [req EXCEPT ![w] = Respond(r0, 409, "Already voted")]
              /\ voters' = voters
         ELSE IF row.locked_out /\ InLockoutWindow(row)
         THEN /\ auth_attempts' = log_auth_attempt(v, m, "lockout", "Account locked", FALSE)
              /\ req' = [req EXCEPT ![w] = Respond(r0, 403, "Account locked")]
              /\ voters' = RejectInWindow(v)
         ELSE /\ auth_attempts' = auth_attempts
              /\ req' = [req EXCEPT ![w] = [r0 EXCEPT !.pc = IF row.locked_out THEN "reset" ELSE "decide"]]
              /\ voters' = voters
  /\ UNCHANGED <<vote_submissions, election_status, tokens, used_tokens,
                 chain, streak, n_cast>>

\* authenticate_with_*: the lockout duration has passed: reset the lockout
AuthReset(w) ==
  /\ req[w].kind = "auth" /\ req[w].pc = "reset"
  /\ voters' = UpdateVoter(req[w].voter_id, [locked_out |-> FALSE, failed_auth_count |-> 0])
  /\ streak' = [streak EXCEPT ![req[w].voter_id] = 0]
  /\ req' = [req EXCEPT ![w].pc = "decide"]
  /\ UNCHANGED <<vote_submissions, auth_attempts, election_status, tokens,
                 used_tokens, chain, n_auth, n_cast>>

\* sample processing that raises for no sample
ProcessableAlways(sample) == TRUE

\* decode_image and get_embedding (extract_features for a fingerprint) return a
\* vector: the image decodes and, for a face, exactly one face is detected;
\* otherwise they raise BiometricAuthError
Processable(sample) == sample # "undecodable"

\* a comparison whose exception handler reports a match
compare_embeddingsFailOpen(sample, stored_ok) ==
  [matched |-> (~stored_ok \/ sample = "match"), scored |-> TRUE]

\* FaceService.compare_embeddings / FingerprintService.compare_fingerprints on a
\* processed sample: (matched, similarity_score); stored_ok is whether the stored
\* template decrypts and dequantizes, and any exception inside the comparison
\* is caught and returns (False, 0.0)
compare_embeddings(sample, stored_ok) ==
  IF stored_ok THEN [matched |-> sample = "match", scored |-> TRUE]
  ELSE [matched |-> FALSE, scored |-> TRUE]

\* the reset after a match, with the lock cleared along with the counter
MatchedUpdateUnlocking == [failed_auth_count |-> 0, locked_out |-> FALSE]

\* authenticate_with_*: UPDATE voters SET failed_auth_count = 0 after a match
MatchedUpdate == [failed_auth_count |-> 0]

\* new_count = voter.failed_auth_count + 1, on the row fetched at the start
NewFailedCount(r) == r.voter.failed_auth_count + 1

\* authenticate_with_*: max-attempts check on the fetched row, sample processing,
\* comparison, and the write of the failed-attempt counter
AuthDecide(w) ==
  /\ req[w].kind = "auth" /\ req[w].pc = "decide"
  /\ LET r == req[w]
         v == r.voter_id
     IN  IF r.voter.failed_auth_count >= MAX_AUTH_ATTEMPTS
         THEN /\ voters' = UpdateVoter(v, [locked_out |-> TRUE, lockout_at |-> now])
              /\ auth_attempts' = log_auth_attempt(v, r.method, "lockout", "Max attempts exceeded", FALSE)
              /\ req' = [req EXCEPT ![w] = Respond(r, 403, "Max attempts exceeded")]
              /\ streak' = streak
         ELSE \E sample \in Samples, stored_ok \in BOOLEAN :
              IF ~Processable(sample)
              THEN /\ auth_attempts' = log_auth_attempt(v, r.method, "failure", "Sample rejected", FALSE)
                   /\ req' = [req EXCEPT ![w] = Respond([r EXCEPT !.sample = sample], 400, "Sample rejected")]
                   /\ UNCHANGED <<voters, streak>>
              ELSE LET c == compare_embeddings(sample, stored_ok)
                       rc == [r EXCEPT !.compared = TRUE, !.matched = c.matched,
                                       !.sample = sample, !.stored_ok = stored_ok]
                   IN  IF ~c.matched
                       THEN /\ voters' = UpdateVoter(v, [failed_auth_count |-> NewFailedCount(r)])
                            /\ auth_attempts' = log_auth_attempt(v, r.method, "failure", "Not matched", c.scored)
                            /\ req' = [req EXCEPT ![w] = Respond(rc, 401, "Not matched")]
                            /\ streak' = [streak EXCEPT ![v] = @ + 1]
                       ELSE /\ voters' = UpdateVoter(v, MatchedUpdate)
                            /\ auth_attempts' = auth_attempts
                            /\ req' = [req EXCEPT ![w] = [rc EXCEPT !.pc = "issue"]]
                            /\ streak' = [streak EXCEPT ![v] = 0]
  /\ UNCHANGED <<vote_submissions, election_status, tokens, used_tokens, chain,
                 n_auth, n_cast>>

\* authenticate_with_*: find the active election, mint the token, log the success
AuthIssue(w) ==
  /\ req[w].kind = "auth" /\ req[w].pc = "issue"
  /\ LET r == req[w]
     IN  IF ActiveElections = {}
         THEN /\ req' = [req EXCEPT ![w] = Respond(r, 400, "No active election")]
              /\ UNCHANGED <<tokens, auth_attempts>>
         ELSE \E e \in ActiveElections :
              LET tok == create_voting_session_token(r.voter_id, e, r.voter.constituency_id, NewSessionId)
              IN  /\ tokens' = tokens \cup {tok}
                  /\ auth_attempts' = log_auth_attempt(r.voter_id, r.method, "success", "none", TRUE)
                  /\ req' = [req EXCEPT ![w] = [Respond(r, 200, "success") EXCEPT !.auth_token = tok.session_id]]
  /\ UNCHANGED <<voters, vote_submissions, election_status, used_tokens, chain,
                 streak, n_auth, n_cast>>

\* ------------------------------------------------------------- cast_vote
\* a decoder that never looks at exp
TokenExpiredIgnored(tok) == FALSE

\* jwt.decode of a token signed with VOTING_SESSION_SECRET: the exp claim is
\* rejected once the clock is past it
TokenExpired(tok) == tok.exp < now

\* jwt.decode(token, secret): TRUE when the signature verifies under `secret` and
\* the token has not expired, FALSE when it raises JWTError
jwt_decode(tok, secret) == tok.key = secret /\ ~TokenExpired(tok)

\* get_current_session without its type test
SessionClaimsOkAnyType(tok) ==
  /\ jwt_decode(tok, VOTING_SESSION_SECRET)
  /\ \A c \in {"voter_id", "election_id", "constituency_id", "session_id"} :
       c \in DOMAIN tok

\* get_current_session up to the voter lookup: TRUE when the token decodes under
\* VOTING_SESSION_SECRET, its type is voting_session and the four session claims
\* are present
SessionClaimsOk(tok) ==
  /\ jwt_decode(tok, VOTING_SESSION_SECRET)
  /\ Claim(tok, "type") = "voting_session"
  /\ \A c \in {"voter_id", "election_id", "constituency_id", "session_id"} :
       c \in DOMAIN tok

\* the table without its unique constraint
UniqueViolationDropped(voter_pk, election_id) == FALSE

\* one voter/election pair per row: vote_submissions_unique_voter_election
UniqueViolation(voter_pk, election_id) ==
  \E s \in vote_submissions : s.voter_id = voter_pk /\ s.election_id = election_id

\* clean_expired_tokens
clean_expired_tokens(ut) == {e \in ut : ~(e.exp < now)}

\* the entry kept only up to the moment of the cast
MarkUsedNoMargin(ut, sid) == ut \cup {[session_id |-> sid, exp |-> now]}

\* used_tokens[session_id] = utcnow() + 10 minutes
MarkUsed(ut, sid) ==
  {e \in ut : e.session_id # sid} \cup {[session_id |-> sid, exp |-> now + USED_TOKEN_TTL_MINUTES]}

\* the answer of a voter check: the rejection raised, or status 0 to go on
Pass == [status |-> 0, detail |-> "none"]

\* get_current_session: the checks on the voter the token names
SessionVoterCheck(row) ==
  IF row.id = 0 THEN [status |-> 404, detail |-> "Voter not found"]
  ELSE IF row.has_voted THEN [status |-> 409, detail |-> "Voter has already cast vote"]
  ELSE IF row.locked_out THEN [status |-> 403, detail |-> "Voter is locked out"]
  ELSE Pass

\* the handler's voter checks without the has_voted test
CastVoterCheckNoVoted(row) ==
  IF row.id = 0 THEN [status |-> 404, detail |-> "Voter not found"]
  ELSE IF row.locked_out THEN [status |-> 403, detail |-> "Account locked"]
  ELSE Pass

\* cast_vote: the checks on the voter row the handler fetches itself
CastVoterCheck(row) ==
  IF row.id = 0 THEN [status |-> 404, detail |-> "Voter not found"]
  ELSE IF row.has_voted THEN [status |-> 409, detail |-> "Already voted"]
  ELSE IF row.locked_out THEN [status |-> 403, detail |-> "Account locked"]
  ELSE Pass

\* the UPDATE without has_voted in its SET list
VotedUpdateNoFlag(tx_hash) == [voted_at |-> now, vote_tx_hash |-> tx_hash]

\* cast_vote: UPDATE voters SET has_voted = TRUE, voted_at = NOW(), vote_tx_hash = :tx_hash
VotedUpdate(tx_hash) == [has_voted |-> TRUE, voted_at |-> now, vote_tx_hash |-> tx_hash]

\* get_current_session (the dependency of cast_vote), then the used_tokens test
\* that opens the handler body
CastSession(w, tok) ==
  /\ req[w].kind = "idle"
  /\ n_cast < MaxCast
  /\ n_cast' = n_cast + 1
  /\ tok \in tokens
  /\ LET row == SelectVoter(tok.voter_id)
         r0 == [Idle EXCEPT !.kind = "cast", !.voter_id = tok.voter_id,
                            !.session = [voter_id |-> tok.voter_id, election_id |-> tok.election_id,
                                         constituency_id |-> tok.constituency_id,
                                         session_id |-> tok.session_id]]
     IN  req' = [req EXCEPT ![w] =
           IF ~SessionClaimsOk(tok)
           THEN Respond(r0, 401, "Invalid voting session")
           ELSE IF SessionVoterCheck(row) # Pass
           THEN Respond(r0, SessionVoterCheck(row).status, SessionVoterCheck(row).detail)
           ELSE IF \E e \in used_tokens[w] : e.session_id = tok.session_id
           THEN Respond(r0, 403, "Session token already used")
           ELSE [r0 EXCEPT !.pc = "cast_read"]]
  /\ UNCHANGED <<voters, vote_submissions, auth_attempts, election_status, tokens,
                 used_tokens, chain, streak, n_auth>>

\* what a call of submit_vote_on_chain can come to: a receipt with status 1; an
\* error with nothing on the ledger (node down, revert); an error raised while
\* waiting for the receipt of a transaction that was sent and is mined all the same
LedgerOutcomes == {"receipt", "refused", "timeout"}

\* BlockchainService.submit_vote_on_chain: the ledger after the call
submit_vote_on_chain(v, cand, sid, outcome) ==
  IF outcome \in {"receipt", "timeout"}
  THEN Append(chain, [voter_id |-> v, candidate_id |-> cand, session_id |-> sid])
  ELSE chain

\* the candidate checks without the constituency test
CandidateCheckAnyConstituency(cand, session) ==
  IF cand \notin DOMAIN Candidates \/ Candidates[cand].election_id # session.election_id
  THEN [status |-> 404, detail |-> "Candidate not found"]
  ELSE IF ~Candidates[cand].is_active
  THEN [status |-> 400, detail |-> "Candidate is not active"]
  ELSE Pass

\* cast_vote: SELECT ... FROM candidates WHERE id = :candidate_id AND election_id =
\* :election_id, then the is_active and constituency tests
CandidateCheck(cand, session) ==
  IF cand \notin DOMAIN Candidates \/ Candidates[cand].election_id # session.election_id
  THEN [status |-> 404, detail |-> "Candidate not found"]
  ELSE IF ~Candidates[cand].is_active
  THEN [status |-> 400, detail |-> "Candidate is not active"]
  ELSE IF Candidates[cand].constituency_id # session.constituency_id
  THEN [status |-> 400, detail |-> "Candidate is not in your constituency"]
  ELSE Pass

\* the 503 answer of cast_vote, with the session entered in used_tokens all the same
LedgerFailureConsumingSession(w, r) ==
  /\ req' = [req EXCEPT ![w] = Respond([r EXCEPT !.submitted = TRUE], 503, "Blockchain error")]
  /\ used_tokens' = [used_tokens EXCEPT ![w] = MarkUsed(@, r.session.session_id)]
  /\ UNCHANGED <<voters, vote_submissions>>

\* cast_vote, `except BlockchainError`: the 503 answer; no row is written and
\* used_tokens is not touched
LedgerFailure(w, r) ==
  /\ req' = [req EXCEPT ![w] = Respond([r EXCEPT !.submitted = TRUE], 503, "Blockchain error")]
  /\ UNCHANGED <<voters, vote_submissions, used_tokens>>

\* cast_vote: voter re-check, candidate validation, ledger submission
CastSubmit(w) ==
  /\ req[w].kind = "cast" /\ req[w].pc = "cast_read"
  /\ LET r == req[w]
         row == SelectVoter(r.voter_id)
         rr == [r EXCEPT !.voter = Fetched(row)]
         chosen(cand) == [rr EXCEPT !.candidate_id = cand]
     IN  IF CastVoterCheck(row) # Pass
         THEN /\ req' = [req EXCEPT ![w] = Respond(r, CastVoterCheck(row).status, CastVoterCheck(row).detail)]
              /\ UNCHANGED <<voters, vote_submissions, used_tokens, chain>>
         ELSE \E cand \in CandidateIds :
              IF CandidateCheck(cand, r.session) # Pass
              THEN /\ req' = [req EXCEPT ![w] =
                          Respond(chosen(cand), CandidateCheck(cand, r.session).status,
                                  CandidateCheck(cand, r.session).detail)]
                   /\ UNCHANGED <<voters, vote_submissions, used_tokens, chain>>
              ELSE \E outcome \in LedgerOutcomes :
                   /\ chain' = submit_vote_on_chain(r.voter_id, cand, r.session.session_id, outcome)
                   /\ IF outcome = "receipt"
                      THEN /\ req' = [req EXCEPT ![w] =
                                [chosen(cand) EXCEPT !.pc = "persist", !.submitted = TRUE,
                                                     !.tx_hash = Len(chain) + 1]]
                           /\ UNCHANGED <<voters, vote_submissions, used_tokens>>
                      ELSE LedgerFailure(w, chosen(cand))
  /\ UNCHANGED <<auth_attempts, election_status, tokens, streak, n_auth, n_cast>>

\* cast_vote after the receipt: INSERT vote_submissions, UPDATE voters, commit,
\* then the used_tokens entry; any exception rolls the transaction back
CastPersist(w) ==
  /\ req[w].kind = "cast" /\ req[w].pc = "persist"
  /\ LET r == req[w] IN
     \E db_ok \in BOOLEAN :
       IF \/ ~db_ok
          \/ UniqueViolation(r.voter.id, r.session.election_id)
          \/ SelectVoter(r.voter_id).id # r.voter.id
       THEN /\ req' = [req EXCEPT ![w] = Respond(r, 500, "Failed to cast vote")]
            /\ UNCHANGED <<voters, vote_submissions, used_tokens>>
       ELSE /\ vote_submissions' = vote_submissions \cup
                 {[voter_id |-> r.voter.id, election_id |-> r.session.election_id,
                   session_id |-> r.session.session_id, tx_hash |-> r.tx_hash]}
            /\ voters' = UpdateVoter(r.voter_id, VotedUpdate(r.tx_hash))
            /\ used_tokens' = [used_tokens EXCEPT ![w] =
                 clean_expired_tokens(MarkUsed(@, r.session.session_id))]
            /\ req' = [req EXCEPT ![w] = Respond(r, 200, "Vote recorded")]
  /\ UNCHANGED <<auth_attempts, election_status, tokens, chain, streak, n_auth, n_cast>>

\* the response has been sent; the worker takes the next request
Return(w) ==
  /\ req[w].pc = "done"
  /\ req' = [req EXCEPT ![w] = Idle]
  /\ UNCHANGED <<voters, vote_submissions, auth_attempts, election_status, tokens,
                 used_tokens, chain, streak, n_auth, n_cast>>

\* ------------------------------------------------------------- the clock
\* a timestamp after TickStep minutes have passed; `far` is the distance into the
\* past beyond which no comparison with the clock tells two timestamps apart
Earlier(t, far) ==
  IF t = NoTime THEN NoTime
  ELSE IF t - TickStep < now - far THEN now - far ELSE t - TickStep

\* time passes
Tick ==
  /\ voters' = [v \in DOMAIN voters |->
                  [voters[v] EXCEPT !.lockout_at = Earlier(@, LOCKOUT_DURATION_MINUTES),
                                    !.voted_at = Earlier(@, 0)]]
  /\ tokens' = {[t EXCEPT !.exp = Earlier(t.exp, TickStep),
                          !.iat = Earlier(t.exp, TickStep) - VOTING_SESSION_EXPIRE_MINUTES]
                 : t \in tokens}
  /\ used_tokens' = [w \in Workers |->
                       {[e EXCEPT !.exp = Earlier(@, TickStep)] : e \in used_tokens[w]}]
  /\ UNCHANGED <<vote_submissions, auth_attempts, election_status,
                 chain, req, streak, n_auth, n_cast>>

Next ==
  \/ \E w \in Workers, v \in VoterIds, m \in Methods : AuthSelect(w, v, m)
  \/ \E w \in Workers : AuthReset(w)
  \/ \E w \in Workers : AuthDecide(w)
  \/ \E w \in Workers : AuthIssue(w)
  \/ \E w \in Workers, tok \in tokens : CastSession(w, tok)
  \/ \E w \in Workers : CastSubmit(w)
  \/ \E w \in Workers : CastPersist(w)
  \/ \E w \in Workers : Return(w)
  \/ Tick

Spec == Init /\ [][Next]_vars

\* ------------------------------------------------------------- token domains
\* the administrative tokens of the login endpoint and the two dependencies that
\* accept bearer tokens, applied to every token in circulation
ACCESS_TOKEN_EXPIRE_MINUTES == 30
REFRESH_TOKEN_EXPIRE_DAYS == 7
MFA_TEMP_TOKEN_MINUTES == 5
MaxTokens == 4

\* the admins table
Admins ==
  [A1 |-> [role |-> "super_admin", is_active |-> TRUE, mfa_enabled |-> FALSE],
   A2 |-> [role |-> "auditor", is_active |-> TRUE, mfa_enabled |-> TRUE],
   A3 |-> [role |-> "election_administrator", is_active |-> TRUE, mfa_enabled |-> FALSE],
   A4 |-> [role |-> "polling_officer", is_active |-> TRUE, mfa_enabled |-> FALSE]]

\* create_access_token(data, expires_delta): data, then exp and iat, signed with JWT_SECRET
create_access_token(data, expires_delta) ==
  [exp |-> now + expires_delta, iat |-> now, key |-> JWT_SECRET] @@ data

\* create_refresh_token(data): data, then exp, iat and type, signed with JWT_SECRET
create_refresh_token(data) ==
  [exp |-> now + REFRESH_TOKEN_EXPIRE_DAYS * 1440, iat |-> now, type |-> "refresh",
   key |-> JWT_SECRET] @@ data

\* a token together with the function that minted it
MintedBy(f, tok) == [minted_by |-> f] @@ tok

\* get_current_admin
get_current_admin(tok) ==
  IF ~jwt_decode(tok, JWT_SECRET)
  THEN [status |-> 401, detail |-> "Could not validate credentials"]
  ELSE IF Claim(tok, "sub") = None
  THEN [status |-> 401, detail |-> "Could not validate credentials"]
  ELSE IF Claim(tok, "type") = "refresh"
  THEN [status |-> 401, detail |-> "Cannot use refresh token for authentication"]
  ELSE IF Claim(tok, "sub") \notin DOMAIN Admins
  THEN [status |-> 401, detail |-> "Could not validate credentials"]
  ELSE IF ~Admins[Claim(tok, "sub")].is_active
  THEN [status |-> 403, detail |-> "Admin account is inactive"]
  ELSE Pass

\* get_current_session
get_current_session(tok) ==
  IF ~SessionClaimsOk(tok)
  THEN [status |-> 401, detail |-> "Invalid voting session"]
  ELSE SessionVoterCheck(SelectVoter(tok.voter_id))

\* tokens signed by a holder of one of the keys with claims of its choosing
SignedElsewhere ==
  {[key |-> k, type |-> ty, sub |-> "A1", voter_id |-> "V1", election_id |-> "E1",
    constituency_id |-> "K1", session_id |-> 9, iat |-> now,
    exp |-> now + VOTING_SESSION_EXPIRE_MINUTES, minted_by |-> "other"]
     : k \in {JWT_SECRET, VOTING_SESSION_SECRET},
       ty \in {"refresh", "voting_session", "access", None}}

\* login: the tokens returned to an admin who gave the right password
Login(a) ==
  /\ a \in DOMAIN Admins
  /\ Admins[a].is_active
  /\ Cardinality(tokens) + 2 <= MaxTokens
  /\ tokens' = tokens \cup
       IF Admins[a].mfa_enabled
       THEN {MintedBy("create_access_token",
               create_access_token([sub |-> a, username |-> a, role |-> Admins[a].role,
                                    mfa_required |-> TRUE], MFA_TEMP_TOKEN_MINUTES))}
       ELSE {MintedBy("create_access_token",
               create_access_token([sub |-> a, username |-> a, role |-> Admins[a].role],
                                   ACCESS_TOKEN_EXPIRE_MINUTES)),
             MintedBy("create_refresh_token", create_refresh_token([sub |-> a]))}
  /\ UNCHANGED <<voters, vote_submissions, auth_attempts, election_status,
                 used_tokens, chain, req, streak, n_auth, n_cast>>

\* the token an authenticate request mints after a match
MintSession(v) ==
  /\ v \in DOMAIN voters
  /\ Cardinality(tokens) < MaxTokens
  /\ \E e \in ActiveElections :
       tokens' = tokens \cup
         {MintedBy("create_voting_session_token",
            create_voting_session_token(v, e, voters[v].constituency_id, NewSessionId))}
  /\ UNCHANGED <<voters, vote_submissions, auth_attempts, election_status,
                 used_tokens, chain, req, streak, n_auth, n_cast>>

\* a token not minted by this server comes into circulation
SignElsewhere(tok) ==
  /\ Cardinality(tokens) < MaxTokens
  /\ tokens' = tokens \cup {tok}
  /\ UNCHANGED <<voters, vote_submissions, auth_attempts, election_status,
                 used_tokens, chain, req, streak, n_auth, n_cast>>

\* a request whose bearer token goes through the dependency `dep`
Presented(dep, tok, answer) ==
  [kind |-> dep, pc |-> "done", token |-> tok,
   status |-> answer.status, detail |-> answer.detail]

\* a request to an endpoint that depends on get_current_session
PresentToSession(w, tok) ==
  /\ req[w].kind = "idle"
  /\ req' = [req EXCEPT ![w] = Presented("get_current_session", tok, get_current_session(tok))]
  /\ UNCHANGED <<voters, vote_submissions, auth_attempts, election_status, tokens,
                 used_tokens, chain, streak, n_auth, n_cast>>

\* a request to an endpoint that depends on get_current_admin
PresentToAdmin(w, tok) ==
  /\ req[w].kind = "idle"
  /\ req' = [req EXCEPT ![w] = Presented("get_current_admin", tok, get_current_admin(tok))]
  /\ UNCHANGED <<voters, vote_submissions, auth_attempts, election_status, tokens,
                 used_tokens, chain, streak, n_auth, n_cast>>

NextTokens ==
  \/ \E a \in DOMAIN Admins : Login(a)
  \/ \E v \in Voters : MintSession(v)
  \/ \E tok \in SignedElsewhere : SignElsewhere(tok)
  \/ \E w \in Workers, tok \in tokens : PresentToSession(w, tok)
  \/ \E w \in Workers, tok \in tokens : PresentToAdmin(w, tok)
  \/ \E w \in Workers : Return(w)

SpecTokens == Init /\ [][NextTokens]_vars

\* ------------------------------------------------------------- one worker, two voters, administration
\* a single worker process serving two registered voters, while administrators
\* remove voters and close the election
SeqWorker == "w1"
SeqVoters == {"V1", "V2"}

InitSeq ==
  /\ voters = [v \in SeqVoters |-> NewVoter(v)]
  /\ vote_submissions = {}
  /\ auth_attempts = EmptyBag
  /\ election_status = [E1 |-> "active"]
  /\ tokens = {}
  /\ used_tokens = [w \in Workers |-> {}]
  /\ chain = << >>
  /\ req = [w \in Workers |-> Idle]
  /\ streak = [v \in SeqVoters |-> 0]
  /\ n_auth = 0
  /\ n_cast = 0

\* delete_voter (soft delete): 404 for an unknown voter, 409 for one already
\* locked, otherwise UPDATE voters SET locked_out = TRUE, lockout_at = NOW()
delete_voter(v) ==
  /\ SelectVoter(v).id # 0
  /\ ~SelectVoter(v).locked_out
  /\ voters' = UpdateVoter(v, [locked_out |-> TRUE, lockout_at |-> now,
                               soft_deleted |-> TRUE])
  /\ UNCHANGED <<vote_submissions, auth_attempts, election_status, tokens,
                 used_tokens, chain, req, streak, n_auth, n_cast>>

\* close_election: 400 unless the election is active; the contract is told to
\* close, and a BlockchainError answers 500 before anything is written;
\* otherwise election.status = ENDED
close_election(e) ==
  /\ election_status[e] = "active"
  /\ \E ledger_ok \in BOOLEAN :
       election_status' = IF ledger_ok THEN [election_status EXCEPT ![e] = "ended"]
                          ELSE election_status
  /\ UNCHANGED <<voters, vote_submissions, auth_attempts, tokens,
                 used_tokens, chain, req, streak, n_auth, n_cast>>

\* authenticate_with_*, `except Exception`: a statement of the handler raises
\* something other than HTTPException (the database, the token library); what
\* was committed before stays, and the answer is 500
AuthFault(w) ==
  /\ req[w].kind = "auth" /\ req[w].pc \in {"reset", "decide", "issue"}
  /\ req' = [req EXCEPT ![w] = Respond(req[w], 500, "Authentication failed")]
  /\ UNCHANGED <<voters, vote_submissions, auth_attempts, election_status, tokens,
                 used_tokens, chain, streak, n_auth, n_cast>>

NextSeq ==
  \/ \E v \in SeqVoters \cup {UnknownVoter}, m \in Methods :
       n_auth < MaxSeqAuth /\ AuthSelect(SeqWorker, v, m)
  \/ AuthReset(SeqWorker)
  \/ AuthDecide(SeqWorker)
  \/ AuthIssue(SeqWorker)
  \/ AuthFault(SeqWorker)
  \/ \E tok \in tokens : CastSession(SeqWorker, tok)
  \/ CastSubmit(SeqWorker)
  \/ CastPersist(SeqWorker)
  \/ Return(SeqWorker)
  \/ Tick
  \/ \E v \in SeqVoters : delete_voter(v)
  \/ \E e \in DOMAIN election_status : close_election(e)

SpecSeq == InitSeq /\ [][NextSeq]_vars

\* ------------------------------------------------------------- maintenance scripts
\* delete_voter.py: in one transaction, drop the append-only rules of
\* auth_attempts, UPDATE auth_attempts SET voter_id = NULL for the voter's rows,
\* DELETE the voter, recreate the rules; a vote_submissions row of the voter
\* (ON DELETE RESTRICT) fails the DELETE and rolls all of it back
delete_voter_script(v) ==
  /\ SelectVoter(v).id # 0
  /\ LET pk == SelectVoter(v).id
         nullified(row) == IF row.voter_ref = pk THEN [row EXCEPT !.voter_ref = 0] ELSE row
     IN  IF \E sub \in vote_submissions : sub.voter_id = pk
         THEN UNCHANGED <<voters, auth_attempts>>
         ELSE /\ auth_attempts' =
                   BagUnion({[r \in {nullified(row)} |-> CopiesIn(row, auth_attempts)]
                               : row \in BagToSet(auth_attempts)})
              /\ voters' = [u \in DOMAIN voters \ {v} |-> voters[u]]
  /\ UNCHANGED <<vote_submissions, election_status, tokens, used_tokens, chain,
                 req, streak, n_auth, n_cast>>

\* delete_all_voters.py, confirmed with "yes": DELETE FROM auth_attempts, DELETE
\* FROM vote_submissions, DELETE FROM voters, each committed. Where the
\* append-only rules of auth_attempts are installed (the ones delete_voter.py
\* drops and recreates, DO INSTEAD NOTHING) the first DELETE removes nothing.
delete_all_voters ==
  /\ DOMAIN voters # {}
  /\ \E rules_installed \in BOOLEAN :
       auth_attempts' = IF rules_installed THEN auth_attempts ELSE EmptyBag
  /\ vote_submissions' = {}
  /\ voters' = [u \in {} |-> NoVoter]
  /\ UNCHANGED <<election_status, tokens, used_tokens, chain, req, streak, n_auth, n_cast>>

NextMaint ==
  \/ NextSeq
  \/ \E v \in SeqVoters : delete_voter_script(v)
  \/ delete_all_voters

SpecMaint == InitSeq /\ [][NextMaint]_vars

\* ------------------------------------------------------------- comparison of vectors
\* thresholds in hundredths: the defaults of the settings, and the ends of the
\* range the settings accept (ge=0.0, le=1.0)
FACE_THRESHOLD == 68
FINGERPRINT_THRESHOLD == 75
Thresholds == {0, FACE_THRESHOLD, FINGERPRINT_THRESHOLD, 100}
Modalities == {"face", "fingerprint"}

\* vectors of up to MaxDim coordinates (cosine similarity does not depend on the
\* scale, so small integers stand for the float32 and int8/127 coordinates)
Vectors == UNION {[1..n -> -MaxCoord..MaxCoord] : n \in 0..MaxDim}

RECURSIVE DotUpTo(_, _, _)
DotUpTo(a, b, n) == IF n = 0 THEN 0 ELSE a[n] * b[n] + DotUpTo(a, b, n - 1)

\* np.dot(a, b) for vectors of one shape
Dot(a, b) == DotUpTo(a, b, Len(a))

\* a score s >= 0 is held as its square num/den
ScoreZero == [num |-> 0, den |-> 1]
ScoreOne == [num |-> 1, den |-> 1]

\* the similarity without the zero-norm test: 0/0 is nan, which
\* max(0.0, min(1.0, nan)) turns into 1.0
cosine_similarityNoNormTest(a, b) ==
  IF Len(a) # Len(b) THEN ScoreZero
  ELSE IF Dot(a, a) = 0 \/ Dot(b, b) = 0 THEN ScoreOne
  ELSE IF Dot(a, b) <= 0 THEN ScoreZero
  ELSE IF Dot(a, b) * Dot(a, b) > Dot(a, a) * Dot(b, b) THEN ScoreOne
  ELSE [num |-> Dot(a, b) * Dot(a, b), den |-> Dot(a, a) * Dot(b, b)]

\* FaceService._cosine_similarity / FingerprintService._calculate_similarity:
\* 0.0 for different shapes or a zero norm, else dot / (norm_a * norm_b)
\* clamped to [0, 1]
cosine_similarity(a, b) ==
  IF Len(a) # Len(b) THEN ScoreZero
  ELSE IF Dot(a, a) = 0 \/ Dot(b, b) = 0 THEN ScoreZero
  ELSE IF Dot(a, b) <= 0 THEN ScoreZero
  ELSE IF Dot(a, b) * Dot(a, b) > Dot(a, a) * Dot(b, b) THEN ScoreOne
  ELSE [num |-> Dot(a, b) * Dot(a, b), den |-> Dot(a, a) * Dot(b, b)]

\* similarity >= self.threshold, the threshold in hundredths
AtLeastThreshold(score, threshold) ==
  score.num * 10000 >= threshold * threshold * score.den

\* dequantize_embedding(decrypted_bytes, shape=live.shape): reshape raises when
\* the stored vector has another number of elements
dequantize_reshapes(stored, live) == Len(stored) = Len(live)

\* compare_embeddings / compare_fingerprints on a live vector and a stored
\* vector that decrypts: (matched, similarity); an exception (the reshape)
\* returns (False, 0.0)
compare_vectors(threshold, live, stored) ==
  IF ~dequantize_reshapes(stored, live)
  THEN [matched |-> FALSE, score |-> ScoreZero]
  ELSE [matched |-> AtLeastThreshold(cosine_similarity(live, stored), threshold),
        score |-> cosine_similarity(live, stored)]

\* one comparison by the service of modality m, under the configured thresholds
CompareVectors(m, config, live, stored) ==
  /\ req[SeqWorker].kind = "idle"
  /\ req' = [req EXCEPT ![SeqWorker] =
        [kind |-> "compare", pc |-> "done", method |-> m, config |-> config,
         live |-> live, stored |-> stored,
         result |-> compare_vectors(config[m], live, stored)]]
  /\ UNCHANGED <<voters, vote_submissions, auth_attempts, election_status, tokens,
                 used_tokens, chain, streak, n_auth, n_cast>>

NextCompare ==
  \/ \E m \in Modalities, config \in [Modalities -> Thresholds], live, stored \in Vectors :
       CompareVectors(m, config, live, stored)
  \/ Return(SeqWorker)

SpecCompare == Init /\ [][NextCompare]_vars

\* ------------------------------------------------------------- encryption of templates
\* bytes are 0..255; a character of a base64 text is its 6-bit value 0..63,
\* B64Pad for "=", or NotB64 for any character outside the alphabet
NONCE_BYTES == 12
TAG_BYTES == 16
B64Pad == 64
NotB64 == 65
B64Chars == 0..NotB64

\* the templates encrypted: byte strings of up to MaxPlain bytes
PlainBytes == {0, 1, 255}
Plaintexts == UNION {[1..n -> PlainBytes] : n \in 0..MaxPlain}

\* secrets.token_bytes(12): two of the nonces it can return
Nonces == {[i \in 1..NONCE_BYTES |-> i], [i \in 1..NONCE_BYTES |-> 255 - i]}

RECURSIVE SumBytes(_)
SumBytes(d) == IF Len(d) = 0 THEN 0 ELSE d[1] + SumBytes(Tail(d))

\* AESGCM(key).encrypt(nonce, data, None): the data under a keystream of the
\* nonce, byte for byte, followed by a tag of TAG_BYTES bytes
aesgcm_encrypt(nonce, data) ==
  LET body == [i \in 1..Len(data) |-> (data[i] + nonce[1] + 7 * i) % 256]
      tag == [j \in 1..TAG_BYTES |-> (SumBytes(body) + SumBytes(nonce) + 13 * j) % 256]
  IN  body \o tag

\* AESGCM(key).decrypt(nonce, data, None): the plaintext when data is what
\* encrypt returned under this nonce for one of the plaintexts encrypted with
\* the key (`issued`), InvalidTag otherwise
aesgcm_decrypt(issued, nonce, data) ==
  IF \E e \in issued : e.nonce = nonce /\ aesgcm_encrypt(e.nonce, e.plain) = data
  THEN [ok |-> TRUE,
        bytes |-> (CHOOSE e \in issued :
                     e.nonce = nonce /\ aesgcm_encrypt(e.nonce, e.plain) = data).plain]
  ELSE [ok |-> FALSE, bytes |-> << >>]

\* base64.b64encode
RECURSIVE b64encode(_)
b64encode(d) ==
  IF Len(d) = 0 THEN << >>
  ELSE IF Len(d) = 1
  THEN << d[1] \div 4, (d[1] % 4) * 16, B64Pad, B64Pad >>
  ELSE IF Len(d) = 2
  THEN << d[1] \div 4, (d[1] % 4) * 16 + d[2] \div 16, (d[2] % 16) * 4, B64Pad >>
  ELSE << d[1] \div 4, (d[1] % 4) * 16 + d[2] \div 16,
          (d[2] % 16) * 4 + d[3] \div 64, d[3] % 64 >>
       \o b64encode(SubSeq(d, 4, Len(d)))

\* binascii.a2b_base64 as base64.b64decode calls it (validate=False): characters
\* outside the alphabet are skipped, decoding stops at a completed pad sequence,
\* the bits left over in the last quantum are dropped, and an incomplete
\* quantum at the end of the text raises binascii.Error
RECURSIVE a2b_base64(_, _, _, _, _, _)
a2b_base64(text, i, quad_pos, leftchar, pads, out) ==
  IF i > Len(text)
  THEN [ok |-> quad_pos = 0, bytes |-> IF quad_pos = 0 THEN out ELSE << >>]
  ELSE LET ch == text[i] IN
       IF ch = B64Pad
       THEN IF quad_pos >= 2 /\ quad_pos + pads + 1 >= 4
            THEN [ok |-> TRUE, bytes |-> out]
            ELSE a2b_base64(text, i + 1, quad_pos, leftchar,
                            IF quad_pos >= 2 THEN pads + 1 ELSE pads, out)
       ELSE IF ch = NotB64
       THEN a2b_base64(text, i + 1, quad_pos, leftchar, pads, out)
       ELSE CASE quad_pos = 0 -> a2b_base64(text, i + 1, 1, ch, 0, out)
              [] quad_pos = 1 -> a2b_base64(text, i + 1, 2, ch % 16, 0,
                                            Append(out, leftchar * 4 + ch \div 16))
              [] quad_pos = 2 -> a2b_base64(text, i + 1, 3, ch % 4, 0,
                                            Append(out, leftchar * 16 + ch \div 4))
              [] quad_pos = 3 -> a2b_base64(text, i + 1, 0, 0, 0,
                                            Append(out, leftchar * 64 + ch))

\* base64.b64decode(text)
b64decode(text) == a2b_base64(text, 1, 0, 0, 0, << >>)

\* encrypt_biometric with the nonce token_bytes returned: base64 of
\* nonce + ciphertext + tag
encrypt_biometric(nonce, template_bytes) ==
  b64encode(nonce \o aesgcm_encrypt(nonce, template_bytes))

\* decrypt_biometric: base64 decode, nonce = encrypted_data[:12], ciphertext =
\* encrypted_data[12:] (slices of a short string are short, not errors),
\* decrypt; every exception is raised again
decrypt_biometric(issued, encrypted_b64) ==
  LET decoded == b64decode(encrypted_b64)
      n == IF Len(decoded.bytes) < NONCE_BYTES THEN Len(decoded.bytes) ELSE NONCE_BYTES
      nonce == SubSeq(decoded.bytes, 1, n)
      ciphertext == SubSeq(decoded.bytes, n + 1, Len(decoded.bytes))
  IN  IF ~decoded.ok THEN [ok |-> FALSE, bytes |-> << >>]
      ELSE aesgcm_decrypt(issued, nonce, ciphertext)

\* the length of the longest stored text
MaxText == 4 * ((NONCE_BYTES + MaxPlain + TAG_BYTES + 2) \div 3)

\* a template is encrypted and the text stored
EncryptBiometric(b, nonce) ==
  /\ req[SeqWorker].kind = "idle"
  /\ req' = [req EXCEPT ![SeqWorker] =
        [kind |-> "crypto", pc |-> "stored", plain |-> b,
         issued |-> {[nonce |-> nonce, plain |-> b]},
         stored |-> encrypt_biometric(nonce, b), altered |-> FALSE,
         result |-> [ok |-> FALSE, bytes |-> << >>]]]
  /\ UNCHANGED <<voters, vote_submissions, auth_attempts, election_status, tokens,
                 used_tokens, chain, streak, n_auth, n_cast>>

\* one character of the stored text is changed in the database
AlterStored(i, ch) ==
  /\ req[SeqWorker].kind = "crypto" /\ req[SeqWorker].pc = "stored"
  /\ ~req[SeqWorker].altered
  /\ i \in 1..Len(req[SeqWorker].stored)
  /\ ch # req[SeqWorker].stored[i]
  /\ req' = [req EXCEPT ![SeqWorker].stored[i] = ch, ![SeqWorker].altered = TRUE]
  /\ UNCHANGED <<voters, vote_submissions, auth_attempts, election_status, tokens,
                 used_tokens, chain, streak, n_auth, n_cast>>

\* the stored text is decrypted
DecryptBiometric ==
  /\ req[SeqWorker].kind = "crypto" /\ req[SeqWorker].pc = "stored"
  /\ req' = [req EXCEPT ![SeqWorker].pc = "done",
                         ![SeqWorker].result =
                            decrypt_biometric(req[SeqWorker].issued, req[SeqWorker].stored)]
  /\ UNCHANGED <<voters, vote_submissions, auth_attempts, election_status, tokens,
                 used_tokens, chain, streak, n_auth, n_cast>>

NextCrypto ==
  \/ \E b \in Plaintexts, nonce \in Nonces : EncryptBiometric(b, nonce)
  \/ \E i \in 1..MaxText, ch \in B64Chars : AlterStored(i, ch)
  \/ DecryptBiometric
  \/ Return(SeqWorker)

SpecCrypto == Init /\ [][NextCrypto]_vars

\* ------------------------------------------------------------- quantization of embeddings
\* an embedding is a vector of rationals num[i] / den; the arithmetic is exact
EPSILON_DIGITS == 8
INT8_SCALE == 127
Denominators == {1, 2}
Embeddings ==
  {[num |-> n, den |-> d] :
     n \in UNION {[1..k -> -MaxQCoord..MaxQCoord] : k \in 1..MaxQDim}, d \in Denominators}

Abs(x) == IF x < 0 THEN -x ELSE x

RECURSIVE MaxAbsUpTo(_, _)
MaxAbsUpTo(n, k) ==
  IF k = 0 THEN 0
  ELSE LET m == MaxAbsUpTo(n, k - 1) IN IF Abs(n[k]) > m THEN Abs(n[k]) ELSE m

\* np.abs(embedding_array).max(), as a numerator over the vector's denominator
MaxAbs(n) == MaxAbsUpTo(n, Len(n))

\* floor(q + r * 10^digits / x) for 0 <= r < x, one decimal digit at a time
RECURSIVE ScaledDiv(_, _, _, _)
ScaledDiv(q, r, x, digits) ==
  IF digits = 0 THEN q
  ELSE ScaledDiv(q * 10 + (r * 10) \div x, (r * 10) % x, x, digits - 1)

RECURSIVE Pow10(_)
Pow10(k) == IF k = 0 THEN 1 ELSE 10 * Pow10(k - 1)

\* (embedding_array / (max + 1e-8) * 127).astype('int8') for one coordinate
\* a / den of a vector with maximum mx / den:
\* 127 * a * 10^8 / (mx * 10^8 + den), truncated toward zero
quantize_coordinate(a, mx, den) ==
  LET x == mx * Pow10(EPSILON_DIGITS) + den
      t == ScaledDiv(0, INT8_SCALE * Abs(a), x, EPSILON_DIGITS)
  IN  IF a < 0 THEN -t ELSE t

\* tobytes() of an int8 array: one byte per coordinate, two's complement
int8_tobyte(q) == (q + 256) % 256

\* np.frombuffer(bytes, dtype='int8')
int8_frombyte(b) == IF b >= 128 THEN b - 256 ELSE b

\* quantize_embedding
quantize_embedding(v) ==
  [i \in 1..Len(v.num) |->
     int8_tobyte(quantize_coordinate(v.num[i], MaxAbs(v.num), v.den))]

\* dequantize_embedding: the int8 values divided by 127.0
dequantize_embedding(embedding_bytes) ==
  [num |-> [i \in 1..Len(embedding_bytes) |-> int8_frombyte(embedding_bytes[i])],
   den |-> INT8_SCALE]

\* an embedding is quantized for storage
QuantizeEmbedding(v) ==
  /\ req[SeqWorker].kind = "idle"
  /\ MaxAbs(v.num) > 0
  /\ req' = [req EXCEPT ![SeqWorker] =
        [kind |-> "quantize", pc |-> "stored", embedding |-> v,
         stored |-> quantize_embedding(v),
         result |-> [num |-> << >>, den |-> INT8_SCALE]]]
  /\ UNCHANGED <<voters, vote_submissions, auth_attempts, election_status, tokens,
                 used_tokens, chain, streak, n_auth, n_cast>>

\* the stored bytes are dequantized for a comparison
DequantizeEmbedding ==
  /\ req[SeqWorker].kind = "quantize" /\ req[SeqWorker].pc = "stored"
  /\ req' = [req EXCEPT ![SeqWorker].pc = "done",
                         ![SeqWorker].result = dequantize_embedding(req[SeqWorker].stored)]
  /\ UNCHANGED <<voters, vote_submissions, auth_attempts, election_status, tokens,
                 used_tokens, chain, streak, n_auth, n_cast>>

NextQuant ==
  \/ \E v \in Embeddings : QuantizeEmbedding(v)
  \/ DequantizeEmbedding
  \/ Return(SeqWorker)

SpecQuant == Init /\ [][NextQuant]_vars

\* ------------------------------------------------------------- election lifecycle
\* ElectionStatus
ElectionStatuses == {"draft", "configured", "active", "ended", "finalized"}

\* ElectionUpdate.status: Optional[ElectionStatus]
Unset == "unset"

\* the constituencies of an election, read off its candidates
ConstituenciesOf(e) ==
  {Candidates[c].constituency_id : c \in {d \in DOMAIN Candidates : Candidates[d].election_id = e}}

\* create_election has made the election: status draft
InitElection ==
  /\ voters = [v \in SeqVoters |-> NewVoter(v)]
  /\ vote_submissions = {}
  /\ auth_attempts = EmptyBag
  /\ election_status = [E1 |-> "draft"]
  /\ tokens = {}
  /\ used_tokens = [w \in Workers |-> {}]
  /\ chain = << >>
  /\ req = [w \in Workers |-> Idle]
  /\ streak = [v \in SeqVoters |-> 0]
  /\ n_auth = 0
  /\ n_cast = 0

\* update_election: 400 unless the election is draft or configured; then every
\* field the request sets is assigned, status included
update_election(e, new_status) ==
  /\ election_status' =
       IF election_status[e] \notin {"draft", "configured"} THEN election_status
       ELSE IF new_status = Unset THEN election_status
       ELSE [election_status EXCEPT ![e] = new_status]
  /\ UNCHANGED <<voters, vote_submissions, auth_attempts, tokens,
                 used_tokens, chain, req, streak, n_auth, n_cast>>

\* start_election: 400 unless draft or configured, 400 without constituencies
\* or candidates, 500 when the ledger call fails, otherwise status active
start_election(e) ==
  /\ \E ledger_ok \in BOOLEAN :
       election_status' =
         IF /\ election_status[e] \in {"draft", "configured"}
            /\ ConstituenciesOf(e) # {}
            /\ {c \in DOMAIN Candidates : Candidates[c].election_id = e} # {}
            /\ ledger_ok
         THEN [election_status EXCEPT ![e] = "active"]
         ELSE election_status
  /\ UNCHANGED <<voters, vote_submissions, auth_attempts, tokens,
                 used_tokens, chain, req, streak, n_auth, n_cast>>

\* finalize_election: 400 unless ended, 400 when a constituency has no active
\* candidate, 500 when the ledger call fails, otherwise status finalized
finalize_election(e) ==
  /\ \E ledger_ok \in BOOLEAN :
       election_status' =
         IF /\ election_status[e] = "ended"
            /\ ConstituenciesOf(e) # {}
            /\ \A k \in ConstituenciesOf(e) :
                 \E c \in DOMAIN Candidates :
                   /\ Candidates[c].election_id = e
                   /\ Candidates[c].constituency_id = k
                   /\ Candidates[c].is_active
            /\ ledger_ok
         THEN [election_status EXCEPT ![e] = "finalized"]
         ELSE election_status
  /\ UNCHANGED <<voters, vote_submissions, auth_attempts, tokens,
                 used_tokens, chain, req, streak, n_auth, n_cast>>

NextElection ==
  \/ NextSeq
  \/ \E e \in DOMAIN election_status, new_status \in ElectionStatuses \cup {Unset} :
       update_election(e, new_status)
  \/ \E e \in DOMAIN election_status : start_election(e)
  \/ \E e \in DOMAIN election_status : finalize_election(e)

SpecElection == InitElection /\ [][NextElection]_vars

\* ------------------------------------------------------------- roles
\* Admin.has_permission: the hierarchy and the comparison
role_hierarchy ==
  [super_admin |-> 4, election_administrator |-> 3, polling_officer |-> 2, auditor |-> 1]

has_permission(role, required_role) ==
  role_hierarchy[role] >= role_hierarchy[required_role]

\* require_role(*roles): the admin passes when its role is listed or
\* has_permission holds for one of the listed roles, 403 otherwise
require_role(roles, role) ==
  IF role \notin roles /\ ~(\E r \in roles : has_permission(role, r))
  THEN [status |-> 403, detail |-> "Insufficient permissions"]
  ELSE Pass

\* the roles the audit endpoints pass to require_role
AuditEndpoints ==
  [get_election_audit_trail |-> {"election_administrator", "super_admin", "auditor"},
   get_audit_logs |-> {"auditor", "election_administrator", "super_admin"}]

\* a request to an audit endpoint: get_current_admin, then the role check
RequestAudit(w, endpoint, tok) ==
  /\ req[w].kind = "idle"
  /\ LET who == get_current_admin(tok)
         role == IF who = Pass THEN Admins[Claim(tok, "sub")].role ELSE None
         answer == IF who = Pass THEN require_role(AuditEndpoints[endpoint], role) ELSE who
     IN  req' = [req EXCEPT ![w] =
           [kind |-> endpoint, pc |-> "done", token |-> tok, role |-> role,
            status |-> answer.status, detail |-> answer.detail]]
  /\ UNCHANGED <<voters, vote_submissions, auth_attempts, election_status, tokens,
                 used_tokens, chain, streak, n_auth, n_cast>>

NextRoles ==
  \/ \E a \in DOMAIN Admins : Login(a)
  \/ \E tok \in SignedElsewhere : SignElsewhere(tok)
  \/ \E w \in Workers, endpoint \in DOMAIN AuditEndpoints, tok \in tokens :
       RequestAudit(w, endpoint, tok)
  \/ \E w \in Workers : Return(w)

SpecRoles == Init /\ [][NextRoles]_vars

\* ------------------------------------------------------------- voter administration
\* the values update_voter is called with for full_name and address
FullNames == {None, "n1"}
Addresses == {None, "a1"}

NoFields == [f \in {} |-> None]

\* a variant whose SET list also carries the voting and enrollment columns
update_fieldsOverwriting(full_name, address) ==
  [full_name |-> full_name, address |-> address, has_voted |-> FALSE,
   vote_tx_hash |-> NoTx, constituency_id |-> "K2", biometric |-> Enrolled(0)]

\* a variant whose SET list re-enrolls the voter in another constituency
update_fieldsReenrolling(full_name, address) ==
  [full_name |-> full_name, address |-> address, constituency_id |-> "K2",
   biometric |-> Enrolled(0)]

\* update_voter: the SET list built from the arguments that are not None
update_fields(full_name, address) ==
  (IF full_name # None THEN [full_name |-> full_name] ELSE NoFields)
  @@ (IF address # None THEN [address |-> address] ELSE NoFields)

\* update_voter: 404 for an unknown voter, 400 when neither argument is given,
\* otherwise UPDATE voters SET <update_fields>, updated_at = NOW()
update_voter(v, full_name, address) ==
  /\ voters' =
       IF SelectVoter(v).id = 0 THEN voters
       ELSE IF full_name = None /\ address = None THEN voters
       ELSE UpdateVoter(v, update_fields(full_name, address))
  /\ UNCHANGED <<vote_submissions, auth_attempts, election_status, tokens,
                 used_tokens, chain, req, streak, n_auth, n_cast>>

NextVoters ==
  \/ NextSeq
  \/ \E v \in Voters \cup {UnknownVoter}, full_name \in FullNames, address \in Addresses :
       update_voter(v, full_name, address)

SpecVoters == Init /\ [][NextVoters]_vars

\* ------------------------------------------------------------- election setup
\* create_election has made two elections: E1, to which the constituencies and
\* candidates of the fixed tables were added, and E2, to which nothing was added
InitSetup ==
  /\ voters = [v \in Voters |-> NewVoter(v)]
  /\ vote_submissions = {}
  /\ auth_attempts = EmptyBag
  /\ election_status = [E1 |-> "draft", E2 |-> "draft"]
  /\ tokens = {}
  /\ used_tokens = [w \in Workers |-> {}]
  /\ chain = << >>
  /\ req = [w \in Workers |-> Idle]
  /\ streak = [v \in Voters |-> 0]
  /\ n_auth = 0
  /\ n_cast = 0

NextSetup ==
  \/ \E e \in DOMAIN election_status, new_status \in ElectionStatuses \cup {Unset} :
       update_election(e, new_status)
  \/ \E e \in DOMAIN election_status : start_election(e)
  \/ \E e \in DOMAIN election_status : close_election(e)
  \/ \E e \in DOMAIN election_status : finalize_election(e)
  \/ \E v \in Voters \cup {UnknownVoter}, m \in Methods :
       n_auth < 1 /\ AuthSelect(SeqWorker, v, m)
  \/ AuthDecide(SeqWorker)
  \/ AuthIssue(SeqWorker)
  \/ Return(SeqWorker)

SpecSetup == InitSetup /\ [][NextSetup]_vars
\* ===================================================================
\* Properties
\* ===================================================================
SubmissionsOf(v) == {s \in vote_submissions : s.voter_id = voters[v].id}

\* C1: a voter with has_voted = TRUE has exactly one vote_submissions row, and no
\* (voter, election) pair has two rows, whatever the interleaving of cast requests.
C1_ExactlyOneSubmission ==
  /\ \A v \in DOMAIN voters : voters[v].has_voted => Cardinality(SubmissionsOf(v)) = 1
  /\ \A s1, s2 \in vote_submissions :
       (s1.voter_id = s2.voter_id /\ s1.election_id = s2.election_id) => s1 = s2

\* a voter has voted while a second cast for the same voter, which had its own
\* ledger receipt, was turned down at the insert
C1_Witness ==
  \E v \in DOMAIN voters, w \in Workers :
    /\ voters[v].has_voted
    /\ req[w].kind = "cast" /\ req[w].voter_id = v /\ req[w].pc = "done"
    /\ req[w].status = 500 /\ req[w].tx_hash # NoTx
    /\ \E s \in vote_submissions : s.voter_id = voters[v].id /\ s.tx_hash # req[w].tx_hash

\* C2: once a cast has succeeded for a session id, a later cast request with that
\* session id is rejected when it is received, on whichever worker, with no ledger
\* call; and no session id ever has two vote_submissions rows.
C2_ReplayRejected ==
  [][ /\ \A w \in Workers :
           ( /\ req[w].kind = "idle" /\ req'[w].kind = "cast"
             /\ \E s \in vote_submissions : s.session_id = req'[w].session.session_id )
           => ( /\ req'[w].pc = "done"
                /\ req'[w].status \in {401, 403, 404, 409}
                /\ chain' = chain /\ vote_submissions' = vote_submissions )
      /\ \A s1, s2 \in vote_submissions' : s1.session_id = s2.session_id => s1 = s2
    ]_vars

\* a replay of a used session id, still inside the token's validity, has been
\* rejected by a worker that never saw the first cast
C2_Witness ==
  \E w \in Workers :
    /\ req[w].kind = "cast" /\ req[w].pc = "done" /\ req[w].status \in {403, 409}
    /\ req[w].tx_hash = NoTx
    /\ \E s \in vote_submissions : s.session_id = req[w].session.session_id
    /\ \E t \in tokens : t.session_id = req[w].session.session_id /\ ~TokenExpired(t)
    /\ \A e \in used_tokens[w] : e.session_id # req[w].session.session_id

\* C3: a cast request that obtained a ledger receipt ends with the vote_submissions
\* row inserted, has_voted set and the session id recorded as used; every ledger
\* transaction has its local row once its request has ended.
C3_AllOrNothing ==
  /\ \A w \in Workers :
       (req[w].kind = "cast" /\ req[w].pc = "done" /\ req[w].tx_hash # NoTx)
       => /\ req[w].status = 200
          /\ \E s \in vote_submissions : s.tx_hash = req[w].tx_hash
          /\ SelectVoter(req[w].voter_id).has_voted
          /\ \E e \in used_tokens[w] : e.session_id = req[w].session.session_id
  /\ \A tx \in 1..Len(chain) :
       \/ \E s \in vote_submissions : s.tx_hash = tx
       \/ \E w \in Workers : req[w].kind = "cast" /\ req[w].tx_hash = tx

\* C4: the has_voted check, the ledger submission and the local commit are one
\* atomic step per voter: of the cast requests in flight for one voter, at most
\* one has called submit_vote_on_chain.
C4_OneLedgerCallPerVoter ==
  \A w1, w2 \in Workers :
    ( /\ w1 # w2
      /\ req[w1].kind = "cast" /\ req[w2].kind = "cast"
      /\ req[w1].voter_id = req[w2].voter_id )
    => ~(req[w1].submitted /\ req[w2].submitted)

\* the step in which worker w's authenticate request ends with a failed match
FailedMatchStep(w) ==
  /\ req[w].kind = "auth" /\ req[w].pc = "decide"
  /\ req'[w].pc = "done" /\ req'[w].status = 401

\* C5: the failed match that raises failed_auth_count to MAX_AUTH_ATTEMPTS locks
\* the voter in the same request: locked_out is set and lockout_at is the time
\* of that failure.
C5_LockOnNthFailure ==
  [][\A w \in Workers :
       ( /\ FailedMatchStep(w)
         /\ req[w].voter_id \in DOMAIN voters
         /\ voters'[req[w].voter_id].failed_auth_count >= MAX_AUTH_ATTEMPTS )
       => ( /\ voters'[req[w].voter_id].locked_out
            /\ voters'[req[w].voter_id].lockout_at = now )
    ]_vars

\* an authenticate request that fetched a locked voter whose lockout duration had
\* passed (it was not turned away for being inside the window)
AfterLockout(r) ==
  /\ r.kind = "auth" /\ r.voter.id # 0 /\ ~r.voter.has_voted
  /\ r.voter.locked_out /\ ~r.in_window

\* C6: the first attempt after the lockout duration is handled as for an ACTIVE
\* voter: it is not rejected for lockout, the comparison runs on a processed
\* sample, and a match leaves failed_auth_count = 0, locked_out = FALSE and
\* returns a token.
C6_ActiveAfterLockout ==
  \A w \in Workers :
    (AfterLockout(req[w]) /\ req[w].pc = "done")
    => /\ req[w].status # 403
       /\ req[w].status \in {200, 401} => req[w].compared
       /\ req[w].status = 200 => req[w].auth_token # NoSession

\* C7: once MAX_AUTH_ATTEMPTS failed matches have been counted in a row and the
\* lockout has not run out, a further attempt never reaches the comparison and
\* is never answered with a token.
C7_NoCompareAfterMax ==
  \A w \in Workers :
    (req[w].kind = "auth" /\ req[w].after_max)
    => /\ ~req[w].compared
       /\ req[w].auth_token = NoSession
       /\ req[w].pc \notin {"issue"}

\* C8: a failed match adds exactly one to the committed failed_auth_count, and no
\* more than MAX_AUTH_ATTEMPTS failed comparisons happen between two resets.
C8_NoLostUpdate ==
  [][\A w \in Workers :
       (FailedMatchStep(w) /\ req[w].voter_id \in DOMAIN voters)
       => ( /\ voters'[req[w].voter_id].failed_auth_count
                 = voters[req[w].voter_id].failed_auth_count + 1
            /\ streak'[req[w].voter_id] <= MAX_AUTH_ATTEMPTS )
    ]_vars

\* the session ids of the tokens minted so far
SessionIds(toks) == {t.session_id : t \in toks}

\* what an authenticate request saw before it got as far as minting a token
PassedAllChecks(r) ==
  /\ r.kind = "auth"
  /\ r.voter.id # 0
  /\ ~r.voter.has_voted
  /\ ~r.in_window
  /\ r.voter.failed_auth_count < MAX_AUTH_ATTEMPTS
  /\ r.compared /\ r.matched

\* C9: a voting session token is minted only by an authenticate request that, in
\* that request, found the voter, saw has_voted = FALSE, was not inside a lockout
\* window, saw failed_auth_count < MAX_AUTH_ATTEMPTS, processed the sample and got
\* matched = TRUE; no request without a successful comparison returns a token.
C9_TokenOnlyAfterMatch ==
  [][ /\ SessionIds(tokens') # SessionIds(tokens)
          => \E w \in Workers :
               /\ req[w].kind = "auth" /\ req[w].pc = "issue"
               /\ req'[w].status = 200
               /\ SessionIds(tokens') = SessionIds(tokens) \cup {req'[w].auth_token}
               /\ PassedAllChecks(req'[w])
      /\ \A w \in Workers :
           req'[w].auth_token # NoSession => PassedAllChecks(req'[w])
      /\ \A w \in Workers :
           (req'[w].kind = "auth" /\ ~(req'[w].compared /\ req'[w].matched))
           => (req'[w].auth_token = NoSession /\ req'[w].pc # "issue")
    ]_vars

\* a token has been returned to a voter who had failed before and was one failure
\* short of the maximum when the request fetched the row
C9_Witness ==
  \E w \in Workers :
    /\ req[w].kind = "auth" /\ req[w].pc = "done" /\ req[w].status = 200
    /\ req[w].auth_token \in SessionIds(tokens)
    /\ req[w].voter.failed_auth_count = MAX_AUTH_ATTEMPTS - 1

\* the voter row as a cast request finds it rules the vote out
VoterRulesOut(row) == row.id = 0 \/ row.has_voted \/ row.locked_out

\* nothing but the request of worker w changes in the step
OnlyAnswers(w) ==
  /\ req'[w].pc = "done"
  /\ req'[w].status \in {403, 404, 409}
  /\ req'[w].tx_hash = NoTx /\ ~req'[w].submitted
  /\ chain' = chain
  /\ voters' = voters
  /\ vote_submissions' = vote_submissions
  /\ used_tokens' = used_tokens
  /\ tokens' = tokens
  /\ auth_attempts' = auth_attempts

C11_DomainsDisjoint ==
  \A w \in Workers :
    /\ req[w].kind = "get_current_session"
       => /\ req[w].token.minted_by \in {"create_access_token", "create_refresh_token"}
               => req[w].status = 401
          /\ Claim(req[w].token, "type") # "voting_session" => req[w].status = 401
    /\ req[w].kind = "get_current_admin"
       => (req[w].token.minted_by = "create_voting_session_token" => req[w].status = 401)

\* each dependency has turned down an unexpired token of the other domain, and
\* get_current_session a token signed with its own key whose type is not its own
C11_Witness ==
  \E w1, w2 \in Workers :
    /\ req[w1].kind = "get_current_session" /\ req[w1].status = 401
    /\ ~TokenExpired(req[w1].token)
    /\ \/ req[w1].token.minted_by = "create_access_token"
       \/ /\ req[w1].token.key = VOTING_SESSION_SECRET
          /\ Claim(req[w1].token, "type") = "refresh"
    /\ req[w2].kind = "get_current_admin" /\ req[w2].status = 401
    /\ req[w2].token.minted_by = "create_voting_session_token"
    /\ ~TokenExpired(req[w2].token)

\* the cast request of worker w is received in this step, bearing token t
CastReceived(w, t) ==
  /\ req[w].kind = "idle" /\ req'[w].kind = "cast"
  /\ t \in tokens /\ t.session_id = req'[w].session.session_id

\* the step leaves voters, vote_submissions and the used-session tracker alone
LocalStateKept ==
  /\ voters' = voters
  /\ vote_submissions' = vote_submissions
  /\ used_tokens' = used_tokens

\* C12: every voting session token has exp = iat + 300 seconds (5 minutes), and a
\* cast request that presents a token after its exp is answered "Invalid voting
\* session" and changes no voter, vote-submission or used-session state.
C12_ExpiredRejected ==
  [][ /\ \A t \in tokens' : t.exp = t.iat + 5
      /\ \A w \in Workers, t \in tokens :
           (CastReceived(w, t) /\ t.exp < now)
           => ( /\ req'[w].pc = "done"
                /\ req'[w].status = 401 /\ req'[w].detail = "Invalid voting session"
                /\ LocalStateKept /\ chain' = chain )
    ]_vars

\* an expired token has been presented to cast_vote and turned down, while the
\* voter it names could still vote
C12_Witness ==
  \E w \in Workers, t \in tokens :
    /\ req[w].kind = "cast" /\ req[w].pc = "done" /\ req[w].status = 401
    /\ t.session_id = req[w].session.session_id /\ t.exp < now
    /\ ~VoterRulesOut(SelectVoter(t.voter_id))

\* the candidate is one cast_vote may send to the ledger for this session
CandidateEligible(cand, session) ==
  /\ cand \in DOMAIN Candidates
  /\ Candidates[cand].election_id = session.election_id
  /\ Candidates[cand].is_active
  /\ Candidates[cand].constituency_id = session.constituency_id

C15_ReplayErrorKind ==
  [][\A w \in Workers, t \in tokens :
       ( /\ CastReceived(w, t) /\ ~(t.exp < now)
         /\ \E s \in vote_submissions : s.session_id = t.session_id )
       => ( /\ req'[w].pc = "done"
            /\ req'[w].detail = "Session token already used" )
    ]_vars

\* the cast request has passed the single-use check of its worker
PassedSingleUse(r) ==
  r.kind = "cast" /\ (r.pc \in {"cast_read", "persist"} \/ r.detail \notin
     {"none", "Invalid voting session", "Voter not found", "Voter has already cast vote",
      "Voter is locked out", "Session token already used"})

\* C16: the single-use tracker is one structure shared by all workers with atomic
\* insert-if-absent: a session consumed on one worker is consumed on every
\* worker, and of the cast requests bearing one session id at most one passes
\* the single-use check.
C16_SharedTracker ==
  \A w1, w2 \in Workers :
    /\ {e.session_id : e \in used_tokens[w1]} = {e.session_id : e \in used_tokens[w2]}
    /\ ( /\ w1 # w2
         /\ req[w1].session.session_id = req[w2].session.session_id
         /\ PassedSingleUse(req[w1]) )
       => ~PassedSingleUse(req[w2])

\* C18: a successful match sets failed_auth_count to 0 and leaves locked_out and
\* lockout_at as they were.
C18_MatchKeepsLockState ==
  [][\A w \in Workers :
       ( /\ req[w].kind = "auth" /\ req[w].pc = "decide"
         /\ req'[w].compared /\ req'[w].matched )
       => ( /\ voters'[req[w].voter_id].failed_auth_count = 0
            /\ voters'[req[w].voter_id].locked_out = voters[req[w].voter_id].locked_out
            /\ voters'[req[w].voter_id].lockout_at = voters[req[w].voter_id].lockout_at )
    ]_vars

\* a request has matched for a voter whom other requests locked after it had
\* fetched the row: the counter is 0 and the lock is still on
C18_Witness ==
  \E w \in Workers :
    /\ req[w].kind = "auth" /\ req[w].pc = "issue" /\ req[w].matched
    /\ ~req[w].voter.locked_out
    /\ voters[req[w].voter_id].locked_out
    /\ voters[req[w].voter_id].failed_auth_count = 0

\* C14: when the ledger call fails or times out, cast_vote answers with the
\* ledger-unavailable error and leaves has_voted, voted_at, vote_submissions and
\* the used-session tracker as they were, so that the same token can be
\* presented again and is processed normally: while the token is unexpired, the
\* voter eligible and no submission recorded for the session, a cast with it
\* passes the session and single-use checks.
C14_LedgerFailureKeepsState ==
  [][ /\ \A w \in Workers :
           ( /\ req[w].kind = "cast" /\ req[w].pc = "cast_read"
             /\ req'[w].pc = "done" /\ req'[w].submitted )
           => ( /\ req'[w].status = 503
                /\ LocalStateKept )
      /\ \A w \in Workers, t \in tokens :
           ( /\ CastReceived(w, t) /\ ~(t.exp < now)
             /\ ~VoterRulesOut(SelectVoter(t.voter_id))
             /\ ~\E s \in vote_submissions : s.session_id = t.session_id )
           => req'[w].pc = "cast_read"
    ]_vars

\* a cast was answered 503 after a ledger failure, and a cast with the same
\* session has been recorded
C14_Witness ==
  \E w1, w2 \in Workers :
    /\ w1 # w2
    /\ req[w1].kind = "cast" /\ req[w1].pc = "done" /\ req[w1].status = 503
    /\ req[w2].kind = "cast" /\ req[w2].pc = "done" /\ req[w2].status = 200
    /\ req[w1].session.session_id = req[w2].session.session_id
    /\ \E s \in vote_submissions : s.session_id = req[w1].session.session_id

\* C17: a consumed session id stays in the used-session tracker at least until
\* its token expires: an entry never expires before its token, and
\* clean_expired_tokens never removes an entry whose token could still pass
\* validation.
C17_TrackerOutlivesToken ==
  [][\A w \in Workers :
       /\ \A e \in used_tokens'[w], t \in tokens' :
            t.session_id = e.session_id => e.exp >= t.exp
       /\ \A e \in used_tokens[w] :
            (~\E f \in used_tokens'[w] : f.session_id = e.session_id)
            => \A t \in tokens' : t.session_id = e.session_id => t.exp < now
    ]_vars

\* the entry of a recorded session has been cleaned out of the tracker of the
\* worker by a later cast, whose entry is there
C17_Witness ==
  \E s \in vote_submissions :
    /\ ~\E e \in used_tokens[SeqWorker] : e.session_id = s.session_id
    /\ used_tokens[SeqWorker] # {}

\* the step sets the lock of voter v
LockSet(v) ==
  /\ voters'[v].locked_out /\ voters'[v].lockout_at = now
  /\ (~voters[v].locked_out \/ voters[v].lockout_at # now)

\* C19: whichever operation sets the lock of a voter (the authentication
\* handlers or the soft delete), the voter has failed_auth_count >= the
\* configured maximum at the moment the lock is set.
C19_LockedWithMaxFailures ==
  [][\A v \in DOMAIN voters :
       LockSet(v) => voters'[v].failed_auth_count >= MAX_AUTH_ATTEMPTS
    ]_vars

\* the outcome the attempt row of a decided authentication request must carry
ExpectedOutcome(r) ==
  IF r.auth_token # NoSession THEN "success"
  ELSE IF r.detail \in {"Account locked", "Max attempts exceeded"} THEN "lockout"
  ELSE "failure"

\* C20: every authentication request that reaches a decision appends exactly
\* one AuthAttempt row: outcome success exactly when a token was returned,
\* lockout when rejected for lockout, failure for every other rejection, with a
\* null voter reference when the voter id matched no voter; a request that has
\* not reached its decision has appended none.
C20_OneAttemptRowPerDecision ==
  [][\A w \in Workers :
       (req'[w].kind = "auth" /\ req'[w] # req[w])
       => IF req'[w].pc = "done"
          THEN \E row \in BagToSet(auth_attempts') :
                 /\ auth_attempts' = auth_attempts (+) SetToBag({row})
                 /\ row.outcome = ExpectedOutcome(req'[w])
                 /\ row.auth_method = req'[w].method
                 /\ (row.voter_ref = 0) <=> (req'[w].voter.id = 0)
          ELSE auth_attempts' = auth_attempts
    ]_vars

\* C21: across every operation the program offers, API handlers and
\* maintenance scripts, an inserted AuthAttempt or VoteSubmission row is never
\* modified or removed afterwards: both collections only grow.
C21_LogsOnlyGrow ==
  [][ /\ auth_attempts \sqsubseteq auth_attempts'
      /\ vote_submissions \subseteq vote_submissions'
    ]_vars

C23_InternalErrorNeverSucceeds ==
  [][\A w \in Workers :
       ( /\ req[w].kind = "auth" /\ req[w].pc \notin {"idle", "done"}
         /\ \/ req'[w].detail = "Authentication failed"
            \/ (req'[w].compared /\ ~req'[w].stored_ok) )
       => ( /\ req'[w].pc = "done" /\ req'[w].status \in {401, 500}
            /\ req'[w].auth_token = NoSession
            /\ tokens' = tokens )
    ]_vars

\* the genuine voter's sample met a stored template that does not decrypt: the
\* answer is 401 and no token exists
C23_Witness ==
  \E w \in Workers :
    /\ req[w].kind = "auth" /\ req[w].pc = "done"
    /\ req[w].sample = "match" /\ ~req[w].stored_ok
    /\ req[w].status = 401 /\ req[w].auth_token = NoSession
    /\ tokens = {}

\* the comparison held by the worker
Compared == req[SeqWorker]

\* one of the two vectors has norm 0, or the two have different shapes
Degenerate(r) ==
  \/ Len(r.live) # Len(r.stored)
  \/ \A i \in 1..Len(r.live) : r.live[i] = 0
  \/ \A i \in 1..Len(r.stored) : r.stored[i] = 0

\* the result has a score in [0,1], matched = (score >= threshold) for the
\* threshold of its own modality, and score 0 and no match for degenerate input
ResultAsSpecified(r) ==
  /\ 0 <= r.result.score.num /\ r.result.score.num <= r.result.score.den
  /\ r.result.matched <=>
       (r.result.score.num * 10000 >= r.config[r.method] * r.config[r.method] * r.result.score.den)
  /\ Degenerate(r) => (r.result.score.num = 0 /\ ~r.result.matched)

\* C24: for every configured threshold in [0,1] (face and fingerprint
\* thresholds independently) and every pair of vectors, compare returns a score
\* in [0,1] with matched = (score >= threshold), and a zero-norm vector or a
\* shape mismatch always yields score = 0 and matched = false.
C24_CompareAsSpecified ==
  Compared.kind = "compare" => ResultAsSpecified(Compared)

\* C24 amended: the same for every configured threshold in (0,1].
C24_CompareAboveZeroThreshold ==
  (Compared.kind = "compare" /\ Compared.config[Compared.method] > 0)
  => ResultAsSpecified(Compared)

\* a face comparison matched with a score strictly between the face threshold
\* and the fingerprint threshold, both configured
C24_Witness ==
  /\ Compared.kind = "compare" /\ Compared.method = "face"
  /\ Compared.config["face"] = FACE_THRESHOLD
  /\ Compared.config["fingerprint"] = FINGERPRINT_THRESHOLD
  /\ Compared.result.matched
  /\ Compared.result.score.num * 10000
       < FINGERPRINT_THRESHOLD * FINGERPRINT_THRESHOLD * Compared.result.score.den

\* C25: decrypt_biometric(encrypt_biometric(b)) returns b exactly for every byte
\* string b, and decrypting a stored ciphertext in which any single byte has
\* been altered fails with an error instead of returning a plaintext.
C25_RoundTripAndTamper ==
  (Compared.kind = "crypto" /\ Compared.pc = "done")
  => IF Compared.altered
     THEN ~Compared.result.ok
     ELSE Compared.result.ok /\ Compared.result.bytes = Compared.plain

\* C26: for any finite, non-zero-norm input vector v,
\* dequantize_embedding(quantize_embedding(v)) reconstructs v with a maximum
\* absolute error of at most 1/127 of the normalization scale (the vector's
\* maximum absolute value):
\* |result[i] / 127 - num[i] / den| <= (max / den) / 127 for every coordinate.
C26_RoundTripWithinBound ==
  (Compared.kind = "quantize" /\ Compared.pc = "done")
  => /\ Len(Compared.result.num) = Len(Compared.embedding.num)
     /\ \A i \in 1..Len(Compared.embedding.num) :
          Abs(Compared.result.num[i] * Compared.embedding.den
              - INT8_SCALE * Compared.embedding.num[i])
            <= MaxAbs(Compared.embedding.num)

\* C27: once delete_voter has soft-deleted a voter, no authentication request
\* that reads the voter's row afterwards issues a session token for that
\* voter, and no cast request that reads the row afterwards records a vote,
\* however much time has passed since the deletion.
C27_SoftDeletedNeverVotes ==
  \A w \in Workers :
    (req[w].pc = "done" /\ req[w].voter.soft_deleted)
    => /\ ~(req[w].kind = "auth" /\ req[w].status = 200)
       /\ ~(req[w].kind = "cast" /\ req[w].status = 200)

\* the stage of a status in the workflow draft/configured, active, ended, finalized
StatusRank(st) ==
  CASE st \in {"draft", "configured"} -> 0
    [] st = "active" -> 1
    [] st = "ended" -> 2
    [] st = "finalized" -> 3

\* C28: an election's status only advances along draft/configured -> active ->
\* ended -> finalized: no step moves it backwards and no step skips a stage.
C28_StatusAdvancesInOrder ==
  [][\A e \in DOMAIN election_status :
       \/ StatusRank(election_status'[e]) = StatusRank(election_status[e])
       \/ StatusRank(election_status'[e]) = StatusRank(election_status[e]) + 1]_vars

\* C29: the election audit trail and the audit log endpoints admit only admins
\* whose role is election_administrator, super_admin or auditor; a request by
\* a polling_officer is rejected with 403.
C29_AuditRolesOnly ==
  \A w \in Workers :
    (req[w].kind \in DOMAIN AuditEndpoints /\ req[w].pc = "done")
    => /\ req[w].status = Pass.status
            => req[w].role \in {"election_administrator", "super_admin", "auditor"}
       /\ req[w].role = "polling_officer" => req[w].status = 403

\* C30: what the caller of a failed authentication observes (status and
\* message) is the same whether the voter id was unknown or the biometric did
\* not match: a finished request of the first kind and one of the second kind
\* carry the same status and the same message.
C30_FailedFactorHidden ==
  \A w \in Workers, x \in Workers :
    (/\ req[w].kind = "auth" /\ req[w].pc = "done"
     /\ req[w].voter_id \notin DOMAIN voters
     /\ req[x].kind = "auth" /\ req[x].pc = "done"
     /\ req[x].compared /\ ~req[x].matched)
    => /\ req[w].status = req[x].status
       /\ req[w].detail = req[x].detail

\* C31: a voter who has accumulated MAX_AUTH_ATTEMPTS failed matches since a
\* session token was issued cannot cast with that token: no cast request that
\* reads the voter's row with failed_auth_count at the maximum records a vote.
C31_MaxFailuresBlockCast ==
  \A w \in Workers :
    ~(/\ req[w].kind = "cast" /\ req[w].pc = "done" /\ req[w].status = 200
      /\ req[w].voter.failed_auth_count >= MAX_AUTH_ATTEMPTS)

\* C32: cast_vote calls the ledger, and so creates a VoteSubmission, only for
\* an election whose status is active at that moment: a token issued while the
\* election was active is not taken to the ledger after close_election has
\* moved the election to ended.
C32_LedgerOnlyForActiveElection ==
  [][\A w \in Workers :
       (/\ req[w].kind = "cast" /\ req[w].pc = "cast_read"
        /\ (req'[w].submitted \/ chain' # chain))
       => election_status[req[w].session.election_id] = "active"
    ]_vars

\* C33: an authentication attempt rejected because the voter is inside the
\* lockout window changes nothing except the attempt log: the voters table
\* (failed_auth_count, locked_out, lockout_at), the votes, the tokens, the
\* trackers and the ledger are as before, and one lockout row is appended.
C33_LockedAttemptOnlyLogs ==
  [][\A w \in Workers :
       (/\ req[w].kind = "idle" /\ req'[w].kind = "auth"
        /\ req'[w].pc = "done" /\ req'[w].detail = "Account locked")
       => /\ voters' = voters
          /\ vote_submissions' = vote_submissions
          /\ tokens' = tokens /\ used_tokens' = used_tokens /\ chain' = chain
          /\ election_status' = election_status
          /\ BagCardinality(auth_attempts') = BagCardinality(auth_attempts) + 1
    ]_vars

\* an attempt has been turned down inside the lockout window of a voter who
\* was locked for reaching the maximum of failed attempts
C33_Witness ==
  \E w \in Workers :
    /\ req[w].kind = "auth" /\ req[w].pc = "done" /\ req[w].detail = "Account locked"
    /\ voters[req[w].voter_id].locked_out
    /\ voters[req[w].voter_id].failed_auth_count >= MAX_AUTH_ATTEMPTS

\* C34: once has_voted is true for a voter it stays true, and voted_at and
\* vote_tx_hash keep their values, under every step of authenticate,
\* cast_vote, update_voter and delete_voter.
C34_VotedIsFinal ==
  [][\A v \in DOMAIN voters :
       voters[v].has_voted
       => /\ v \in DOMAIN voters'
          /\ voters'[v].has_voted
          /\ voters'[v].vote_tx_hash = voters[v].vote_tx_hash
          /\ voters'[v].voted_at = voters[v].voted_at
    ]_vars

\* a voter who has voted has since been renamed by update_voter and soft-deleted
C34_Witness ==
  \E v \in DOMAIN voters :
    /\ voters[v].has_voted /\ voters[v].vote_tx_hash # NoTx
    /\ voters[v].full_name = "n1" /\ voters[v].soft_deleted

\* C35: every election whose status is active has at least one constituency
\* and at least one candidate, whatever the administrators have called.
C35_ActiveElectionIsSetUp ==
  \A e \in DOMAIN election_status :
    election_status[e] = "active"
    => /\ ConstituenciesOf(e) # {}
       /\ \E c \in DOMAIN Candidates : Candidates[c].election_id = e

\* C36: the temporary token login returns to an admin with MFA enabled
\* (flagged mfa_required) is not accepted by get_current_admin; the backend
\* keeps no record of a verified MFA code that could lift the flag.
C36_MfaTokenNotAccepted ==
  \A w \in Workers :
    (/\ req[w].kind = "get_current_admin"
     /\ "mfa_required" \in DOMAIN req[w].token
     /\ req[w].token.mfa_required)
    => req[w].status # Pass.status

\* C37: after registration the biometric template data (integrity hashes,
\* encrypted templates, salt), the voter id and the constituency of a voter
\* are left as they are by every step of authenticate, cast_vote,
\* update_voter and delete_voter.
C37_EnrollmentIsImmutable ==
  [][\A v \in DOMAIN voters :
       /\ v \in DOMAIN voters'
       /\ voters'[v].biometric = voters[v].biometric
       /\ voters'[v].voter_id = voters[v].voter_id
       /\ voters'[v].id = voters[v].id
       /\ voters'[v].constituency_id = voters[v].constituency_id
    ]_vars

\* a voter who failed a match, then voted, got a new address from update_voter
\* and was soft-deleted still has the enrollment data of registration
C37_Witness ==
  \E v \in DOMAIN voters :
    /\ voters[v].address = "a1" /\ voters[v].has_voted /\ voters[v].locked_out
    /\ voters[v].biometric = Enrolled(voter_pk_of[v])
    /\ voters[v].constituency_id = NewVoter(v).constituency_id
====
